---- MODULE Spec2Model ----
(***************************************************************************)
(* Widget initialization lifecycle of src/src/main-widget.tsx:             *)
(* initMyWidget (validation, retry loop, timeout race, backoff, fallback,  *)
(* observers) running on the host page's single-threaded event loop,       *)
(* against the DOM container and the React root it mounts; then update,    *)
(* destroy and getHealth of the WidgetInstance it returns, and the         *)
(* ErrorBoundary of src/src/components/ErrorBoundary.tsx around the        *)
(* widget.                                                                 *)
(*                                                                         *)
(* Spec is one initMyWidget call over all its inputs; SpecLife is a call   *)
(* with a valid config followed by the operations on the returned          *)
(* instance, on a page that may have window.reportWidgetError installed.   *)
(*                                                                         *)
(* One action is one run-to-completion block of the event loop: the        *)
(* synchronous head of initMyWidget up to its first await, the microtask   *)
(* continuation after Promise.race, a timer callback, a React commit, or   *)
(* a change the host page makes to the document.                           *)
(* Time is counted in units of 1000 ms.                                    *)
(***************************************************************************)
EXTENDS Integers, Sequences, FiniteSets, TLC

VARIABLES
    present,         \* document.getElementById('my-widget-container') finds the container
    content,         \* what the container element holds
    pc,              \* position of the initMyWidget call
    config,          \* argument config
    options,         \* argument options
    attempt,         \* loop variable of the retry loop
    lastError,       \* local lastError
    result,          \* settlement of the promise initMyWidget returned
    initPromise,     \* per attempt: state of initPromise
    timeoutPromise,  \* per attempt: state of timeoutPromise
    race,            \* per attempt: state of Promise.race([initPromise, timeoutPromise])
    instances,       \* per attempt: the WidgetInstance its executor built
    roots,           \* per attempt: state of the root made by ReactDOM.createRoot
    timers,          \* pending setTimeout callbacks
    now,             \* Date.now()
    log,             \* calls made by initMyWidget, in order
    onErrorArgs,     \* arguments onError was invoked with, in order
    onSuccessArgs,   \* arguments onSuccess was invoked with, in order
    tree,            \* per root: the element last passed to root.render
    renderCalls,     \* per root: number of root.render calls made on it
    overlaid,        \* per instance: its config overlaid with every update's partial, in order
    hasError,        \* per root: state.hasError of its ErrorBoundary
    caughtAt,        \* per root: which of its root.render calls the boundary caught (0: none)
    health,          \* what the last getHealth call returned
    thrown,          \* what the last call on an instance threw to its caller
    hook,            \* window.reportWidgetError is installed
    uncaught,        \* an exception left the ErrorBoundary and reached React's root
    sentry,          \* window.Sentry is installed
    intercepted      \* the calls the last componentDidCatch made, in order

\* what createRoot, root.render and update write
mountVars == <<tree, renderCalls, overlaid>>
\* the rest of the state of the instances and of the boundary
lifeVars == <<hasError, caughtAt, health, thrown, hook, uncaught, sentry, intercepted>>

vars == <<present, content, pc, config, options, attempt, lastError, result,
          initPromise, timeoutPromise, race, instances, roots, timers, now,
          log, onErrorArgs, onSuccessArgs, tree, renderCalls, overlaid,
          hasError, caughtAt, health, thrown, hook, uncaught, sentry, intercepted>>

(***************************************************************************)
(* Bounds and program constants                                            *)
(***************************************************************************)
MaxRetries == 2          \* largest explicit options.retries tried
MaxUpdates == 2          \* largest number of update calls on one instance
DefaultRetries == 3      \* retries = 3
DefaultTimeout == 5      \* timeout = 5000 (ms)

MaxAttempts == IF MaxRetries > DefaultRetries THEN MaxRetries ELSE DefaultRetries
Attempts == 1..MaxAttempts

(***************************************************************************)
(* JavaScript values                                                       *)
(***************************************************************************)
Undef == [t |-> "undefined", v |-> ""]
Str(s) == [t |-> "string", v |-> s]
Num(s) == [t |-> "number", v |-> s]
Bool(s) == [t |-> "boolean", v |-> s]
Element(s) == [t |-> "object", v |-> s]

\* ToBoolean, as used by `x && ...` and `if (x)`
Truthy(x) ==
    CASE x.t = "undefined" -> FALSE
      [] x.t = "string" -> x.v # ""
      [] x.t = "number" -> x.v # "0"
      [] x.t = "boolean" -> x.v = "true"
      [] OTHER -> TRUE

\* the declared types of the recognized keys of WidgetConfig
Themes == {"light", "dark", "default", "premium"}
TypeOk(key, x) ==
    \/ x.t = "undefined"
    \/ key = "theme" /\ x.t = "string" /\ x.v \in Themes
    \/ key \in {"apiKey", "locale"} /\ x.t = "string"
    \/ key = "debug" /\ x.t = "boolean"
RecognizedKeys == {"theme", "apiKey", "locale", "debug"}

EmptyConfig == [theme |-> Undef, apiKey |-> Undef, locale |-> Undef,
                debug |-> Undef, extra |-> Undef]

\* configs tried: one per case of validateConfig and of the declared types
Configs ==
    { EmptyConfig,
      [EmptyConfig EXCEPT !.theme = Str("dark")],
      [EmptyConfig EXCEPT !.theme = Str("neon")],
      [EmptyConfig EXCEPT !.theme = Str("")],
      [EmptyConfig EXCEPT !.apiKey = Num("123")],
      [EmptyConfig EXCEPT !.apiKey = Num("0")],
      [EmptyConfig EXCEPT !.locale = Bool("true")],
      [EmptyConfig EXCEPT !.debug = Str("yes")],
      [EmptyConfig EXCEPT !.theme = Str("light"), !.extra = Str("x")] }

\* validateConfig: "ok", or the message of the Error it throws
validateConfig(c) ==
    IF Truthy(c.theme) /\ ~(c.theme.t = "string" /\ c.theme.v \in Themes)
        THEN "Invalid theme"
    ELSE IF Truthy(c.apiKey) /\ c.apiKey.t # "string"
        THEN "API key must be a string"
    ELSE IF Truthy(c.locale) /\ c.locale.t # "string"
        THEN "Locale must be a string"
    ELSE "ok"

(***************************************************************************)
(* Errors, promises, instances                                             *)
(***************************************************************************)
NoError == [code |-> "", attempt |-> 0]
\* an error without its context
createWidgetErrorNoContext(code, k) == [code |-> code, attempt |-> 0]
\* createWidgetError(code, message, {attempt})
createWidgetError(code, k) == [code |-> code, attempt |-> k]
\* what an observer throws: an exception that carries no WidgetError code
ThrownByObserver == [code |-> "thrown", attempt |-> 0]

\* a WidgetInstance: its config, its root (named by the attempt that made it), startTime
NoInstance == [config |-> EmptyConfig, root |-> 0, startTime |-> 0]
WidgetInstance(c, k, t) == [config |-> c, root |-> k, startTime |-> t]

Pending == [st |-> "pending", err |-> NoError, inst |-> 0]
Fulfilled(k) == [st |-> "fulfilled", err |-> NoError, inst |-> k]
RejectedUntagged(e) == [st |-> "rejected", err |-> NoError, inst |-> 0]
Rejected(e) == [st |-> "rejected", err |-> e, inst |-> 0]

\* resolve / reject of a promise: only the first settlement counts
SettleOverwrite(p, outcome) == outcome
Settle(p, outcome) == IF p.st = "pending" THEN outcome ELSE p

\* a race that follows whichever input settled last
PropagateLast(r, old, new) ==
    IF old.st = "pending" /\ new.st # "pending" THEN new ELSE r

\* reaction of Promise.race to one of its inputs going from old to new
Propagate(r, old, new) ==
    IF old.st = "pending" /\ new.st # "pending" THEN Settle(r, new) ELSE r

\* the options object; retries and timeout are numbers, or undefined (-1)
OptionSets ==
    [ retries : {-1} \cup 0..MaxRetries,
      timeout : {-1, 1},
      fallback : {Undef, Str(""), Str("<p>unavailable</p>"), Element("fallbackEl")},
      onError : BOOLEAN,
      onSuccess : BOOLEAN ]

\* const { retries = 3, timeout = 5000, ... } = options
retries == IF options.retries = -1 THEN DefaultRetries ELSE options.retries
timeout == IF options.timeout = -1 THEN DefaultTimeout ELSE options.timeout

\* a delay that does not grow with the attempt
FixedDelay(n) == 2

\* Math.pow(2, n)
RECURSIVE Pow2(_)
Pow2(n) == IF n <= 0 THEN 1 ELSE 2 * Pow2(n - 1)

\* container contents
HostContent == [kind |-> "host", v |-> "", cfg |-> EmptyConfig]
Widget(c) == [kind |-> "widget", v |-> "", cfg |-> c]
\* DefaultErrorFallback (ErrorBoundary.tsx:16-48), with its reload button
BoundaryFallback == [kind |-> "errorFallback", v |-> "Reload Page", cfg |-> EmptyConfig]
\* a fallback component given to the boundary as its fallback prop
CustomFallback == [kind |-> "customFallback", v |-> "", cfg |-> EmptyConfig]
Html(s) == [kind |-> "html", v |-> s, cfg |-> EmptyConfig]
CloneOf(s) == [kind |-> "clone", v |-> s, cfg |-> EmptyConfig]
Node(s) == [kind |-> "node", v |-> s, cfg |-> EmptyConfig]

\* container.children.length: the markup '' has no element, every other
\* content of this model has one
ChildCount(c) == IF c = Html("") THEN 0 ELSE 1

\* the element passed to root.render: <ErrorBoundary onError={h}><MyWidget
\* config={c}/></ErrorBoundary>; h is "reject" (lines 84-91) or "console" (110-112)
\* initMyWidget and update pass no fallback prop
NoTree == [config |-> EmptyConfig, onError |-> "none", fallback |-> "none"]
Tree(c, h) == [config |-> c, onError |-> h, fallback |-> "none"]

\* { ...c, ...p }: the keys p has replace those of c
Merge(c, p) == [key \in DOMAIN c |-> IF p[key].t # "undefined" THEN p[key] ELSE c[key]]

\* partial configs passed to update
Partials ==
    { EmptyConfig,
      [EmptyConfig EXCEPT !.theme = Str("light")],
      [EmptyConfig EXCEPT !.apiKey = Str("key-2")] }

\* states of a root that createRoot made and unmount has not released
Mounted == {"created", "scheduled", "committed", "errored", "crashed"}

\* a WidgetHealth
NoHealth == [inst |-> 0, isHealthy |-> FALSE, errors |-> 0, lastCheck |-> 0, uptime |-> 0]

Ev(name, k) == [ev |-> name, n |-> k]

\* settlement of the promise an async function returns
Unsettled == [st |-> "pending", inst |-> 0]
ResolvedNull == [st |-> "resolved", inst |-> 0]
ResolvedInstance(k) == [st |-> "resolved", inst |-> k]
RejectedCall == [st |-> "rejected", inst |-> 0]

\* the state before initMyWidget is called, but for the inputs
Start ==
    /\ content = HostContent
    /\ pc = "idle"
    /\ attempt = 0
    /\ lastError = NoError
    /\ result = Unsettled
    /\ initPromise = [k \in Attempts |-> Pending]
    /\ timeoutPromise = [k \in Attempts |-> Pending]
    /\ race = [k \in Attempts |-> Pending]
    /\ instances = [k \in Attempts |-> NoInstance]
    /\ roots = [k \in Attempts |-> "none"]
    /\ timers = {}
    /\ now = 0
    /\ log = <<>>
    /\ onErrorArgs = <<>>
    /\ onSuccessArgs = <<>>
    /\ tree = [k \in Attempts |-> NoTree]
    /\ renderCalls = [k \in Attempts |-> 0]
    /\ overlaid = [k \in Attempts |-> EmptyConfig]
    /\ hasError = [k \in Attempts |-> FALSE]
    /\ caughtAt = [k \in Attempts |-> 0]
    /\ health = NoHealth
    /\ thrown = "none"
    /\ uncaught = FALSE
    /\ intercepted = <<>>

\* a page without window.reportWidgetError
Init ==
    /\ Start
    /\ present \in BOOLEAN
    /\ config \in Configs
    /\ options \in OptionSets
    /\ hook = FALSE
    /\ sentry = FALSE

(***************************************************************************)
(* initMyWidget                                                            *)
(***************************************************************************)
\* What ReactDOM.createRoot and root.render do when called from the executor.
\* root.render of a createRoot root returns after scheduling the render: React
\* renders and commits in a later task (Commit, CommitError), or never.
\* Either call may also throw, e.g. when the React global is missing.
MountOutcomes == {"scheduled", "createRootThrows", "renderThrows"}

\* The executor of initPromise for attempt k (lines 57-134), the timer of
\* timeoutPromise (136-144) and the subscription of Promise.race (146), run
\* at time tm with the timers tms pending, the log lg and lastError le.
StartAttempt(k, lg, le, tm, tms) ==
    \E m \in MountOutcomes :
      LET outcome ==
              IF ~present
                  THEN Rejected(createWidgetError("CONTAINER_NOT_FOUND", k))
              ELSE IF m = "scheduled" THEN Fulfilled(k)
              ELSE Rejected(createWidgetError("INITIALIZATION_FAILED", k))
          calls ==
              IF ~present THEN <<Ev("getElementById", k)>>
              ELSE IF m = "createRootThrows"
                  THEN <<Ev("getElementById", k), Ev("createRoot", k)>>
              ELSE <<Ev("getElementById", k), Ev("createRoot", k), Ev("render", k)>>
          settled == Settle(initPromise[k], outcome)
      IN  /\ attempt' = k
          /\ initPromise' = [initPromise EXCEPT ![k] = settled]
          /\ roots' = [roots EXCEPT ![k] =
                          IF ~present \/ m = "createRootThrows" THEN "none"
                          ELSE IF m = "renderThrows" THEN "created"
                          ELSE "scheduled"]
          /\ instances' = [instances EXCEPT ![k] =
                          IF present /\ m = "scheduled"
                              THEN WidgetInstance(config, k, tm) ELSE @]
          /\ tree' = [tree EXCEPT ![k] =
                          IF present /\ m = "scheduled" THEN Tree(config, "reject") ELSE @]
          /\ renderCalls' = [renderCalls EXCEPT ![k] =
                          IF present /\ m # "createRootThrows" THEN 1 ELSE @]
          /\ overlaid' = [overlaid EXCEPT ![k] =
                          IF present /\ m = "scheduled" THEN config ELSE @]
          /\ timers' = tms \cup {[kind |-> "timeout", attempt |-> k, at |-> tm + timeout]}
          /\ race' = [race EXCEPT ![k] = Propagate(@, initPromise[k], settled)]
          /\ log' = lg \o calls
          /\ lastError' = le
          /\ pc' = "await"

\* lines 165-170: what the container holds once the fallback is put into it
RenderFallbackNoClone(fallback) ==
    IF fallback.t = "string" THEN Html(fallback.v) ELSE Node(fallback.v)
RenderFallback(fallback) ==
    IF fallback.t = "string" THEN Html(fallback.v) ELSE CloneOf(fallback.v)

\* the loop's exit without the `if (lastError)` guard of line 174
ExhaustedAlwaysReports(lg, le) ==
    LET fallback == options.fallback
        shown == Truthy(fallback) /\ present
        lg1 == IF shown THEN Append(lg, Ev("fallback", 0)) ELSE lg
    IN  /\ content' = IF shown THEN RenderFallback(fallback) ELSE content
        /\ lastError' = le
        /\ pc' = "done"
        /\ IF options.onError
              THEN \E throws \in BOOLEAN :
                      /\ onErrorArgs' = Append(onErrorArgs, le)
                      /\ log' = Append(lg1, Ev("onError", le.attempt))
                      /\ result' = IF throws THEN RejectedCall ELSE ResolvedNull
              ELSE /\ onErrorArgs' = onErrorArgs
                   /\ log' = lg1
                   /\ result' = ResolvedNull

\* Lines 161-178: the fallback, onError and `return null`, with the log lg
\* and lastError le.
Exhausted(lg, le) ==
    LET fallback == options.fallback
        shown == Truthy(fallback) /\ present
        lg1 == IF shown THEN Append(lg, Ev("fallback", 0)) ELSE lg
    IN  /\ content' = IF shown THEN RenderFallback(fallback) ELSE content
        /\ lastError' = le
        /\ pc' = "done"
        /\ IF le # NoError /\ options.onError
              THEN \E throws \in BOOLEAN :
                      /\ onErrorArgs' = Append(onErrorArgs, le)
                      /\ log' = Append(lg1, Ev("onError", le.attempt))
                      /\ result' = IF throws THEN RejectedCall ELSE ResolvedNull
              ELSE /\ onErrorArgs' = onErrorArgs
                   /\ log' = lg1
                   /\ result' = ResolvedNull

\* a catch block that allows itself one attempt more than retries
CatchOneMore(k, e, lg) ==
    IF k <= retries /\ k < MaxAttempts
        THEN /\ lastError' = e
             /\ timers' = timers \cup {[kind |-> "backoff", attempt |-> k, at |-> now + Pow2(k)]}
             /\ log' = Append(lg, Ev("backoff", k))
             /\ pc' = "backoff"
             /\ UNCHANGED <<content, result, onErrorArgs>>
        ELSE /\ Exhausted(lg, e)
             /\ UNCHANGED timers

\* Lines 150-158 for a failure e of attempt k, then the loop's exit when
\* this was the last attempt.
Catch(k, e, lg) ==
    IF k < retries
        THEN /\ lastError' = e
             /\ timers' = timers \cup {[kind |-> "backoff", attempt |-> k, at |-> now + Pow2(k)]}
             /\ log' = Append(lg, Ev("backoff", k))
             /\ pc' = "backoff"
             /\ UNCHANGED <<content, result, onErrorArgs>>
        ELSE /\ Exhausted(lg, e)
             /\ UNCHANGED timers

\* initMyWidget(config, options) up to its first await or its return
Call ==
    /\ pc = "idle"
    /\ IF validateConfig(config) # "ok"
          THEN /\ pc' = "done"
               /\ IF options.onError
                     THEN \E throws \in BOOLEAN :
                             /\ onErrorArgs' = Append(onErrorArgs, createWidgetError("VALIDATION_ERROR", 0))
                             /\ log' = Append(log, Ev("onError", 0))
                             /\ result' = IF throws THEN RejectedCall ELSE ResolvedNull
                     ELSE /\ result' = ResolvedNull
                          /\ UNCHANGED <<onErrorArgs, log>>
               /\ UNCHANGED <<content, attempt, lastError, initPromise, race,
                              instances, roots, timers, mountVars>>
       ELSE IF 1 <= retries
          THEN /\ StartAttempt(1, log, lastError, now, timers)
               /\ UNCHANGED <<content, result, onErrorArgs>>
       ELSE /\ Exhausted(log, lastError)
            /\ UNCHANGED <<attempt, initPromise, race, instances, roots, timers,
                           mountVars>>
    /\ UNCHANGED <<present, config, options, timeoutPromise, now, onSuccessArgs,
                   lifeVars>>

\* The continuation of `await Promise.race(...)`: lines 146-148 when the race
\* fulfilled, the catch block when it rejected or onSuccess threw.
Resume ==
    /\ pc = "await"
    /\ race[attempt].st # "pending"
    /\ IF race[attempt].st = "fulfilled"
          THEN IF options.onSuccess
                  THEN \E throws \in BOOLEAN :
                          /\ onSuccessArgs' = Append(onSuccessArgs, race[attempt].inst)
                          /\ IF throws
                                THEN Catch(attempt, ThrownByObserver,
                                           Append(log, Ev("onSuccess", attempt)))
                                ELSE /\ result' = ResolvedInstance(race[attempt].inst)
                                     /\ log' = Append(log, Ev("onSuccess", attempt))
                                     /\ pc' = "done"
                                     /\ UNCHANGED <<content, lastError, timers, onErrorArgs>>
                  ELSE /\ result' = ResolvedInstance(race[attempt].inst)
                       /\ pc' = "done"
                       /\ UNCHANGED <<content, lastError, timers, onErrorArgs,
                                      onSuccessArgs, log>>
          ELSE /\ Catch(attempt, race[attempt].err, log)
               /\ UNCHANGED onSuccessArgs
    /\ UNCHANGED <<present, config, options, attempt, initPromise, timeoutPromise,
                   race, instances, roots, now, mountVars, lifeVars>>

(***************************************************************************)
(* Timers, React, the host page                                            *)
(***************************************************************************)
\* a pending timer that no other pending timer precedes
Due(t) == t \in timers /\ \A u \in timers : t.at <= u.at

\* the callback of timeoutPromise's setTimeout (lines 137-143)
TimeoutFires(t) ==
    /\ pc # "await"
    /\ Due(t)
    /\ t.kind = "timeout"
    /\ now' = t.at
    /\ timers' = timers \ {t}
    /\ LET settled == Settle(timeoutPromise[t.attempt],
                             Rejected(createWidgetError("TIMEOUT", t.attempt)))
       IN  /\ timeoutPromise' = [timeoutPromise EXCEPT ![t.attempt] = settled]
           /\ race' = [race EXCEPT ![t.attempt] =
                          Propagate(@, timeoutPromise[t.attempt], settled)]
    /\ UNCHANGED <<present, content, pc, config, options, attempt, lastError, result,
                   initPromise, instances, roots, log, onErrorArgs, onSuccessArgs,
                   mountVars, lifeVars>>

\* attempt++ of the loop header (line 55)
SkipAttempt(k) == k + 2
NextAttempt(k) == k + 1

\* the backoff timer (line 156) resolves: the loop goes on to the next attempt
BackoffFires(t) ==
    /\ pc = "backoff"
    /\ Due(t)
    /\ t.kind = "backoff"
    /\ t.attempt = attempt
    /\ now' = t.at
    /\ StartAttempt(NextAttempt(attempt), log, lastError, t.at, timers \ {t})
    /\ UNCHANGED <<present, content, config, options, result, timeoutPromise,
                   onErrorArgs, onSuccessArgs, lifeVars>>

\* ErrorBoundary.render (ErrorBoundary.tsx:88-95) around <MyWidget config={c}/>
\* const FallbackComponent = this.props.fallback || DefaultErrorFallback
FallbackComponent(fb) == IF fb = "none" THEN BoundaryFallback ELSE CustomFallback
BoundaryRender(failed, t) ==
    IF failed THEN FallbackComponent(t.fallback) ELSE Widget(t.config)

\* React commits the render scheduled for root k: the boundary displays the
\* widget with the config of the element last rendered, or its fallback once
\* it has caught an error.
Commit(k) ==
    /\ pc # "await"
    /\ roots[k] = "scheduled"
    /\ roots' = [roots EXCEPT ![k] = IF hasError[k] THEN "errored" ELSE "committed"]
    /\ content' = BoundaryRender(hasError[k], tree[k])
    /\ UNCHANGED <<present, pc, config, options, attempt, lastError, result,
                   initPromise, timeoutPromise, race, instances, timers, now,
                   log, onErrorArgs, onSuccessArgs, mountVars, lifeVars>>

\* what window.reportWidgetError does when componentDidCatch calls it
\* (ErrorBoundary.tsx:82-84)
HookOutcomes == IF hook THEN {"returns", "throws"} ELSE {"absent"}

\* The root and its container after componentDidCatch ran with hook outcome
\* h. An exception that leaves componentDidCatch has no boundary above it:
\* React removes the whole tree of the root and reports the error as
\* uncaught; the root itself stays usable.
RootReleasedAfterCatch(h) == "unmounted"
RootAfterCatch(h) == IF h = "throws" THEN "crashed" ELSE "errored"
ContentAfterCatch(h, t) == IF h = "throws" THEN Html("") ELSE BoundaryRender(TRUE, t)

\* what window.Sentry.captureException does when componentDidCatch calls it
\* (ErrorBoundary.tsx:71-79)
SentryOutcomes == IF sentry THEN {"returns", "throws"} ELSE {"absent"}

\* The calls componentDidCatch makes for element t (ErrorBoundary.tsx:60-86),
\* in order, with outcome s of Sentry and h of reportWidgetError: a call that
\* throws ends the method.
componentDidCatchReportingFirst(t, s, h) ==
    (IF s # "absent" THEN <<"Sentry">> ELSE <<>>)
        \o (IF s # "throws" /\ h # "absent" THEN <<"reportWidgetError">> ELSE <<>>)
        \o (IF t.onError # "none" /\ s # "throws" /\ h # "throws" THEN <<"onError">> ELSE <<>>)
componentDidCatch(t, s, h) ==
    (IF t.onError # "none" THEN <<"onError">> ELSE <<>>)
        \o (IF s # "absent" THEN <<"Sentry">> ELSE <<>>)
        \o (IF s # "throws" /\ h # "absent" THEN <<"reportWidgetError">> ELSE <<>>)

\* static getDerivedStateFromError(error) (ErrorBoundary.tsx:56-58): the state
\* the boundary takes when a descendant threw the error e; errors are named
\* by the number of the render call they were thrown in.
getDerivedStateFromErrorFlagOnly(e) == [hasError |-> TRUE, error |-> 0]
getDerivedStateFromError(e) == [hasError |-> TRUE, error |-> e]

\* The widget tree of root k throws while rendering: getDerivedStateFromError
\* sets hasError, the fallback is committed, and componentDidCatch calls the
\* onError prop (which rejects initPromise with RENDER_ERROR for the element
\* of lines 83-94 and only logs for the element of update) and then the hook.
CommitError(k) ==
    /\ pc # "await"
    /\ roots[k] = "scheduled"
    /\ ~hasError[k]
    /\ \E s \in SentryOutcomes, r \in HookOutcomes :
          LET h == IF s = "throws" THEN "throws" ELSE r
          IN  /\ intercepted' = componentDidCatch(tree[k], s, r)
              /\ roots' = [roots EXCEPT ![k] = RootAfterCatch(h)]
              /\ content' = ContentAfterCatch(h, tree[k])
              /\ hasError' = [hasError EXCEPT ![k] =
                     getDerivedStateFromError(renderCalls[k]).hasError /\ h # "throws"]
              /\ caughtAt' = [caughtAt EXCEPT ![k] =
                     getDerivedStateFromError(renderCalls[k]).error]
              /\ uncaught' = (uncaught \/ h = "throws")
    /\ IF tree[k].onError = "reject"
          THEN LET settled == Settle(initPromise[k],
                                     Rejected(createWidgetError("RENDER_ERROR", k)))
               IN  /\ initPromise' = [initPromise EXCEPT ![k] = settled]
                   /\ race' = [race EXCEPT ![k] = Propagate(@, initPromise[k], settled)]
          ELSE UNCHANGED <<initPromise, race>>
    /\ UNCHANGED <<present, pc, config, options, attempt, lastError, result,
                   timeoutPromise, instances, timers, now, log, onErrorArgs,
                   onSuccessArgs, mountVars, health, thrown, hook, sentry>>

\* the host page puts the container into the document
HostAttach ==
    /\ pc # "await"
    /\ ~present
    /\ present' = TRUE
    /\ UNCHANGED <<content, pc, config, options, attempt, lastError, result,
                   initPromise, timeoutPromise, race, instances, roots, timers, now,
                   log, onErrorArgs, onSuccessArgs, mountVars, lifeVars>>

\* the host page removes the container from the document
HostDetach ==
    /\ pc # "await"
    /\ present
    /\ present' = FALSE
    /\ UNCHANGED <<content, pc, config, options, attempt, lastError, result,
                   initPromise, timeoutPromise, race, instances, roots, timers, now,
                   log, onErrorArgs, onSuccessArgs, mountVars, lifeVars>>

(***************************************************************************)
(* The operations of a WidgetInstance                                      *)
(***************************************************************************)
\* Instance k is the one initMyWidget returned to its caller, who makes the
\* calls below.
Held(k) ==
    /\ instances[k] # NoInstance
    /\ result = ResolvedInstance(k)

\* instance.update(p), lines 106-117: the partial is merged over the config
\* the executor closed over, and the result is only passed to root.render.
\* root.render on a root that unmount released throws "Cannot update an
\* unmounted root"; the exception reaches the caller of update.
Update(k, p) ==
    /\ pc # "await"
    /\ Held(k)
    /\ renderCalls[k] <= MaxUpdates
    /\ renderCalls' = [renderCalls EXCEPT ![k] = @ + 1]
    /\ overlaid' = [overlaid EXCEPT ![k] = Merge(@, p)]
    /\ IF roots[k] = "unmounted"
          THEN /\ thrown' = "unmountedRoot"
               /\ UNCHANGED <<tree, roots>>
          ELSE /\ thrown' = "none"
               /\ tree' = [tree EXCEPT ![k] = Tree(Merge(instances[k].config, p), "console")]
               /\ roots' = [roots EXCEPT ![k] = "scheduled"]
    /\ UNCHANGED <<present, content, pc, config, options, attempt, lastError, result,
                   initPromise, timeoutPromise, race, instances, timers, now, log,
                   onErrorArgs, onSuccessArgs, hasError, caughtAt, health, hook,
                   uncaught, sentry, intercepted>>

\* instance.destroy(), lines 102-105: root.unmount() releases the root (and
\* does nothing on a released one), then container.innerHTML = ''
Destroy(k) ==
    /\ pc # "await"
    /\ Held(k)
    /\ roots' = [roots EXCEPT ![k] = "unmounted"]
    /\ content' = Html("")
    /\ thrown' = "none"
    /\ UNCHANGED <<present, pc, config, options, attempt, lastError, result,
                   initPromise, timeoutPromise, race, instances, timers, now, log,
                   onErrorArgs, onSuccessArgs, mountVars, hasError, caughtAt, health,
                   hook, uncaught, sentry, intercepted>>

\* the object instance.getHealth() returns, lines 118-123
getHealthSinceEpoch(k) ==
    [inst |-> k, isHealthy |-> present /\ ChildCount(content) > 0, errors |-> 0,
     lastCheck |-> now, uptime |-> now]
getHealthIgnoringDocument(k) ==
    [inst |-> k, isHealthy |-> ChildCount(content) > 0, errors |-> 0,
     lastCheck |-> now, uptime |-> now - instances[k].startTime]
getHealth(k) ==
    [inst |-> k, isHealthy |-> present /\ ChildCount(content) > 0, errors |-> 0,
     lastCheck |-> now, uptime |-> now - instances[k].startTime]

\* a call of instance.getHealth()
GetHealth(k) ==
    /\ pc # "await"
    /\ Held(k)
    /\ health' = getHealth(k)
    /\ thrown' = "none"
    /\ UNCHANGED <<present, content, pc, config, options, attempt, lastError, result,
                   initPromise, timeoutPromise, race, instances, roots, timers, now,
                   log, onErrorArgs, onSuccessArgs, mountVars, hasError, caughtAt,
                   hook, uncaught, sentry, intercepted>>

\* the host page writes its own content into the container
HostFill ==
    /\ pc # "await"
    /\ content # HostContent
    /\ content' = HostContent
    /\ UNCHANGED <<present, pc, config, options, attempt, lastError, result,
                   initPromise, timeoutPromise, race, instances, roots, timers, now,
                   log, onErrorArgs, onSuccessArgs, mountVars, lifeVars>>

Next ==
    \/ Call
    \/ Resume
    \/ \E t \in timers : TimeoutFires(t)
    \/ \E t \in timers : BackoffFires(t)
    \/ \E k \in Attempts : Commit(k)
    \/ \E k \in Attempts : CommitError(k)
    \/ HostAttach
    \/ HostDetach

Spec == Init /\ [][Next]_vars

\* One call on an event loop that keeps running: a continuation that is ready
\* runs, and a timer that is due fires.  The fallback option is either absent
\* or one markup string; it is used only after the loop has ended.
FairOptions == {o \in OptionSets : o.fallback \in {Undef, Str("<p>unavailable</p>")}}
InitFair ==
    /\ Start
    /\ present \in BOOLEAN
    /\ config \in Configs
    /\ options \in FairOptions
    /\ hook = FALSE
    /\ sentry = FALSE
SpecFair ==
    /\ InitFair
    /\ [][Next]_vars
    /\ WF_vars(Resume)
    /\ WF_vars(\E t \in timers : TimeoutFires(t))
    /\ WF_vars(\E t \in timers : BackoffFires(t))

\* A parent renders the boundary of root k again with the same element:
\* React keeps the ErrorBoundary instance and its state.
Rerender(k) ==
    /\ pc = "idle"
    /\ roots[k] \in {"committed", "errored", "crashed"}
    /\ renderCalls[k] <= MaxUpdates
    /\ renderCalls' = [renderCalls EXCEPT ![k] = @ + 1]
    /\ roots' = [roots EXCEPT ![k] = "scheduled"]
    /\ UNCHANGED <<present, content, pc, config, options, attempt, lastError, result,
                   initPromise, timeoutPromise, race, instances, timers, now, log,
                   onErrorArgs, onSuccessArgs, tree, overlaid, lifeVars>>

\* elements that give the boundary each combination of its optional props
BoundaryTrees ==
    [ config : {EmptyConfig, [EmptyConfig EXCEPT !.theme = Str("dark")],
                [EmptyConfig EXCEPT !.apiKey = Str("key-2")]},
      onError : {"none", "console"},
      fallback : {"none", "custom"} ]

\* Code of the page other than initMyWidget makes root 1 on the container
\* and renders the element t into it.
MountBoundary(t) ==
    /\ pc = "idle"
    /\ present
    /\ roots[1] = "none"
    /\ roots' = [roots EXCEPT ![1] = "scheduled"]
    /\ tree' = [tree EXCEPT ![1] = t]
    /\ renderCalls' = [renderCalls EXCEPT ![1] = 1]
    /\ UNCHANGED <<present, content, pc, config, options, attempt, lastError, result,
                   initPromise, timeoutPromise, race, instances, timers, now, log,
                   onErrorArgs, onSuccessArgs, overlaid, lifeVars>>

\* a page that may have Sentry and window.reportWidgetError installed, on
\* which initMyWidget is not called
InitBoundary ==
    /\ Start
    /\ present = TRUE
    /\ config = EmptyConfig
    /\ options = [retries |-> -1, timeout |-> -1, fallback |-> Undef,
                  onError |-> FALSE, onSuccess |-> FALSE]
    /\ hook \in BOOLEAN
    /\ sentry \in BOOLEAN

NextBoundary ==
    \/ \E t \in BoundaryTrees : MountBoundary(t)
    \/ \E k \in Attempts : Commit(k)
    \/ \E k \in Attempts : CommitError(k)
    \/ \E k \in Attempts : Rerender(k)

\* the ErrorBoundary component on its own, under every combination of its props
SpecBoundary == InitBoundary /\ [][NextBoundary]_vars

\* configs and options of the calls whose instances are then operated on
LifeConfigs == {[EmptyConfig EXCEPT !.theme = Str("dark")]}
LifeOptions ==
    [ retries : {1, 2},
      timeout : {-1},
      fallback : {Undef},
      onError : {FALSE},
      onSuccess : BOOLEAN ]

\* a page that may have window.reportWidgetError installed
InitLife ==
    /\ Start
    /\ present \in BOOLEAN
    /\ config \in LifeConfigs
    /\ options \in LifeOptions
    /\ hook \in BOOLEAN
    /\ sentry = FALSE

NextLife ==
    \/ Next
    \/ \E k \in Attempts, p \in Partials : Update(k, p)
    \/ \E k \in Attempts : Destroy(k)
    \/ \E k \in Attempts : GetHealth(k)
    \/ HostFill

\* initMyWidget followed by the operations of the instances it hands out
SpecLife == InitLife /\ [][NextLife]_vars

(***************************************************************************)
(* Vocabulary of the claims                                                *)
(***************************************************************************)
Logged(name) == {i \in 1..Len(log) : log[i].ev = name}
LoggedFor(name, k) == {i \in 1..Len(log) : log[i] = Ev(name, k)}
MountCalls == Logged("createRoot") \cup Logged("render")

\* the call is over without an instance, after the retry loop ran out
LoopExhausted ==
    pc = "done" /\ validateConfig(config) = "ok" /\ result.inst = 0

\* C1. A config whose theme lies outside {light, dark, default, premium}
\* makes initMyWidget resolve to null and invoke onError exactly once, with
\* a VALIDATION_ERROR, without any container lookup, createRoot, render or
\* backoff wait.
C1_InvalidThemeFailsValidation ==
    (pc # "idle" /\ config.theme.t # "undefined" /\ ~TypeOk("theme", config.theme))
    => /\ result = ResolvedNull
       /\ options.onError =>
             /\ Len(onErrorArgs) = 1
             /\ onErrorArgs[1].code = "VALIDATION_ERROR"
       /\ MountCalls = {}
       /\ Logged("getElementById") = {}
       /\ Logged("backoff") = {}

\* C2. A wrong-typed value for any recognized key (apiKey, locale, debug,
\* theme) makes initMyWidget fail with VALIDATION_ERROR before any attempt,
\* and a valid config with an added unrecognized key goes on to the mount
\* attempts.
C2_WrongTypeFailsValidation ==
    /\ (pc # "idle" /\ \E key \in RecognizedKeys : ~TypeOk(key, config[key]))
       => /\ pc = "done"
          /\ Logged("getElementById") = {}
          /\ options.onError =>
                /\ Len(onErrorArgs) = 1
                /\ onErrorArgs[1].code = "VALIDATION_ERROR"
    /\ (/\ pc # "idle"
        /\ config.extra.t # "undefined"
        /\ \A key \in RecognizedKeys : TypeOk(key, config[key])
        /\ retries >= 1)
       => LoggedFor("getElementById", 1) # {}

\* C3. When no lookup of the call finds the container, a call with
\* retries = n >= 1 makes exactly n attempts, resolves to null, and hands
\* onError the error of the last attempt: CONTAINER_NOT_FOUND, attempt = n.
C3_ContainerNeverResolves ==
    (/\ pc = "done"
     /\ validateConfig(config) = "ok"
     /\ retries >= 1
     /\ Logged("createRoot") = {})
    => /\ \A k \in Attempts :
             Cardinality(LoggedFor("getElementById", k)) = IF k <= retries THEN 1 ELSE 0
       /\ result = ResolvedNull
       /\ lastError = createWidgetError("CONTAINER_NOT_FOUND", retries)
       /\ options.onError => onErrorArgs = <<lastError>>

\* the container is found for the first time by attempt k, and React accepts
\* the render of that attempt
FirstResolvesAt(k) ==
    /\ \A j \in 1..(k - 1) : LoggedFor("createRoot", j) = {}
    /\ LoggedFor("createRoot", k) # {}
    /\ roots[k] \in {"scheduled", "committed", "errored"}

\* C4. When the container first resolves at attempt k <= retries, the call
\* succeeds on attempt k: there is no attempt after k, the call resolves to
\* the instance of attempt k, whose config is the input config, and
\* onSuccess is invoked with that instance.
C4_SucceedsOnFirstResolvingAttempt ==
    \A k \in Attempts :
        (FirstResolvesAt(k) /\ pc # "await")
        => /\ \A j \in Attempts : j > k => LoggedFor("getElementById", j) = {}
           /\ pc = "done"
           /\ result = ResolvedInstance(k)
           /\ instances[k].config = config
           /\ options.onSuccess => onSuccessArgs = <<k>>

\* C5. The timer of an attempt runs for the timeout option (default 5000 ms),
\* and an attempt whose mount has not settled when its timer elapses fails
\* with TIMEOUT.
C5_UnsettledMountTimesOut ==
    /\ \A t \in timers :
          (t.kind = "timeout" /\ t.attempt = 1)
          => t.at = IF options.timeout = -1 THEN DefaultTimeout ELSE options.timeout
    /\ \A k \in Attempts :
          (timeoutPromise[k].st = "rejected" /\ roots[k] = "scheduled")
          => race[k] = Rejected(createWidgetError("TIMEOUT", k))

\* a step in which the loser of a race settles: the timer of an attempt
\* fires, or React finishes (or fails) the render of an attempt
LateSettlement ==
    \/ \E k \in Attempts : timeoutPromise'[k] # timeoutPromise[k]
    \/ \E k \in Attempts : roots[k] = "scheduled" /\ roots'[k] # "scheduled"

\* C6. Only the first settlement of a race counts: a settled initPromise or
\* race never changes, the result of the call and the instances built never
\* change once set, and a late timer or a late render outcome neither
\* invokes onSuccess nor moves the call.
C6_FirstSettlementWins ==
    [][ /\ \A k \in Attempts :
             /\ race[k].st # "pending" => race'[k] = race[k]
             /\ initPromise[k].st # "pending" => initPromise'[k] = initPromise[k]
             /\ instances[k] # NoInstance => instances'[k] = instances[k]
        /\ result.st # "pending" => result' = result
        /\ LateSettlement =>
             UNCHANGED <<onSuccessArgs, onErrorArgs, result, pc, attempt, lastError>>
      ]_vars

\* a timer fired, and a render failed, after the call had returned the instance
C6_Witness ==
    \E k \in Attempts :
        /\ result = ResolvedInstance(k)
        /\ timeoutPromise[k].st = "rejected"
        /\ roots[k] = "errored"
        /\ race[k] = Fulfilled(k)

\* C7. A failure inside the widget tree of an attempt, during or after the
\* render, makes that attempt fail with RENDER_ERROR.
C7_RenderErrorFailsAttempt ==
    \A k \in Attempts :
        roots[k] = "errored" => race[k] = Rejected(createWidgetError("RENDER_ERROR", k))

\* C8. onError is invoked only for the final, exhausted failure: never while
\* attempts remain, never in a call in which an attempt succeeded, and
\* exactly once, with the last recorded error, on exhaustion.
C8_OnErrorOnlyOnExhaustion ==
    /\ onErrorArgs # <<>> =>
          /\ pc = "done"
          /\ Len(onErrorArgs) = 1
          /\ \A k \in Attempts : race[k].st # "fulfilled"
          /\ validateConfig(config) = "ok" => onErrorArgs[1] = lastError
    /\ (LoopExhausted /\ lastError # NoError /\ options.onError)
          => Len(onErrorArgs) = 1

\* no observer has thrown so far: onError did not make the call reject, and
\* every onSuccess invocation was followed directly by the return of the instance
ObserversReturned ==
    /\ result # RejectedCall
    /\ \A i \in Logged("onSuccess") : i = Len(log) /\ result.inst # 0

\* C3, C4 and C8 restricted to the runs in which no observer throws; these
\* restrictions hold, so an observer's exception is the only way they fail.
C3_WhenObserversReturn == ObserversReturned => C3_ContainerNeverResolves
C4_WhenObserversReturn == ObserversReturned => C4_SucceedsOnFirstResolvingAttempt
C8_WhenObserversReturn == ObserversReturned => C8_OnErrorOnlyOnExhaustion

\* C9. The promise of initMyWidget never rejects.
C9_NeverRejects == result.st # "rejected"

\* C10. Whenever the attempts are exhausted and a fallback was supplied, the
\* fallback is put into the container before onError is invoked.
C10_FallbackAlwaysShown ==
    (LoopExhausted /\ attempt >= 1 /\ options.fallback.t # "undefined")
    => \E i \in Logged("fallback") : \A j \in Logged("onError") : i < j

\* C10 as amended: when the attempts are exhausted, the fallback is truthy
\* and the container is in the document at that moment, the step that ends
\* the call leaves the fallback markup, or a clone of the fallback element,
\* as the container's content, and does so before it invokes onError.
C10_FallbackShownWhenContainerPresent ==
    [][ (/\ pc # "done"
         /\ pc' = "done"
         /\ validateConfig(config) = "ok"
         /\ result'.inst = 0
         /\ Truthy(options.fallback)
         /\ present)
        => /\ content' = IF options.fallback.t = "string"
                             THEN Html(options.fallback.v)
                             ELSE CloneOf(options.fallback.v)
           /\ \E i \in 1..Len(log') :
                 /\ log'[i].ev = "fallback"
                 /\ \A j \in 1..Len(log') : log'[j].ev = "onError" => i < j
      ]_vars

\* the clone of a fallback element is displayed and onError has been invoked
C10_Witness ==
    /\ LoopExhausted
    /\ content = CloneOf("fallbackEl")
    /\ Len(onErrorArgs) = 1
    /\ Logged("fallback") # {}

\* C11. When all attempts are exhausted and no fallback was supplied, the
\* content of the container at the moment initMyWidget returns is the content
\* the host page had in it before the call, whatever made the attempts fail.
C11_ContainerUntouchedOnExhaustion ==
    [][(/\ pc # "done"
        /\ LoopExhausted'
        /\ attempt' >= 1
        /\ options.fallback.t = "undefined") => content' = HostContent]_vars

\* C11, for the calls whose observers returned normally
C11_WhenObserversReturn ==
    [][(/\ pc # "done"
        /\ LoopExhausted'
        /\ ObserversReturned'
        /\ attempt' >= 1
        /\ options.fallback.t = "undefined") => content' = HostContent]_vars

\* C12. After any sequence update(p1), ..., update(pn) on a live instance,
\* the config rendered into its root is the initial config overlaid with
\* p1, ..., pn in order: a key set by an earlier update survives a later
\* update that does not mention it.
C12_UpdatesAccumulate ==
    \A k \in Attempts :
        Held(k) /\ roots[k] \in Mounted => tree[k].config = overlaid[k]

\* C13. update(instance, {}) on a live instance, in any reachable state,
\* leaves the config the root displays as it was before the call.
C13_EmptyUpdateKeepsConfig ==
    [][\A k \in Attempts :
          Update(k, EmptyConfig) /\ roots[k] \in Mounted
              => tree'[k].config = tree[k].config]_vars

C15_DestroyIdempotent ==
    [][\A k \in Attempts :
          Destroy(k)
              => /\ roots'[k] = "unmounted"
                 /\ ChildCount(content') = 0
                 /\ thrown' = "none"
                 /\ roots[k] = "unmounted" => roots' = roots /\ content' = content]_vars

\* C16. After destroy(instance), every later getHealth(instance) reports
\* isHealthy = FALSE, in every state reachable afterwards.
C16_DestroyedIsUnhealthy ==
    [][\A k \in Attempts :
          GetHealth(k) /\ roots[k] = "unmounted" => ~health'.isHealthy]_vars

\* C17. destroy is terminal: after it, no operation on the instance makes
\* another render call on the released root or puts rendered content back
\* into the container.
C17_DestroyIsTerminal ==
    [][\A k \in Attempts :
          roots[k] = "unmounted"
              => /\ renderCalls'[k] = renderCalls[k]
                 /\ \A p \in Partials : Update(k, p) => content' = content]_vars

\* C17, the part that holds: a released root stays released and nothing is
\* rendered through it, because React refuses the render call.
C17_NothingRenderedAfterDestroy ==
    [][\A k \in Attempts :
          roots[k] = "unmounted"
              => /\ roots'[k] = "unmounted"
                 /\ tree'[k] = tree[k]
                 /\ \A p \in Partials :
                        Update(k, p) => content' = content /\ thrown' = "unmountedRoot"]_vars

\* C18. getHealth reports isHealthy = TRUE exactly when the container is
\* attached to the document and has at least one child, and the call has no
\* side effect: container, roots, rendered elements, configs, boundary state
\* and recorded errors are what they were before it.
C18_HealthReflectsContainer ==
    [][\A k \in Attempts :
          GetHealth(k)
              => /\ health'.inst = k
                 /\ health'.isHealthy = (present /\ ChildCount(content) >= 1)
                 /\ health'.errors = 0
                 /\ UNCHANGED <<present, content, roots, tree, instances, config,
                                overlaid, renderCalls, hasError, caughtAt, lastError,
                                onErrorArgs, uncaught, result>>]_vars

\* getHealth answered for a container that has a child but is detached
C18_Witness ==
    \E k \in Attempts :
        /\ Held(k)
        /\ health = getHealth(k)
        /\ ~present
        /\ ChildCount(content) >= 1
        /\ ~health.isHealthy

\* C19. While no two initMyWidget calls run concurrently, at most one
\* undestroyed WidgetInstance has a root mounted on the container.
C19_OneMountedInstance ==
    Cardinality({k \in Attempts : instances[k] # NoInstance /\ roots[k] \in Mounted}) <= 1

\* C20. When the boundary catches an error and window.reportWidgetError is
\* installed, an exception of the hook does not leave the boundary and the
\* fallback presentation is shown.
C20_HookFailureContained ==
    [][\A k \in Attempts :
          hook /\ CommitError(k)
              => /\ uncaught' = uncaught
                 /\ content' = BoundaryFallback
                 /\ hasError'[k]]_vars

\* C20, when the hook returns normally or is absent
C20_WhenHookReturns ==
    [][\A k \in Attempts :
          CommitError(k) /\ roots'[k] # "crashed"
              => /\ uncaught' = uncaught
                 /\ content' = BoundaryFallback
                 /\ hasError'[k]]_vars

\* C21. After a failed attempt k < retries the call waits 2^k time units
\* (2 after attempt 1, 4 after attempt 2) before attempt k+1 starts; after
\* the last allowed attempt there is no wait before the fallback and
\* onError step.
C21_Delays == <<2, 4, 8, 16>>
C21_ExponentialBackoff ==
    [][/\ pc = "await" /\ pc' = "backoff"
            => /\ attempt < retries
               /\ now' = now
               /\ \E t \in timers' \ timers :
                      /\ t.kind = "backoff"
                      /\ t.attempt = attempt
                      /\ t.at = now + C21_Delays[attempt]
               /\ \A t \in timers' \ timers : t.kind = "backoff"
       /\ pc = "backoff" /\ pc' # "backoff"
            => /\ pc' = "await"
               /\ attempt' = attempt + 1
               /\ \E t \in timers :
                      /\ t.kind = "backoff"
                      /\ t.attempt = attempt
                      /\ now' = t.at
       /\ pc = "backoff" => attempt' # attempt \/ UNCHANGED <<attempt, log, lastError>>
       /\ pc = "await" /\ pc' = "done" /\ result'.inst = 0
            => /\ attempt = retries
               /\ now' = now
               /\ timers' = timers]_vars

\* the third attempt is under way, 2 + 4 time units after two attempts that
\* failed at once
C21_Witness ==
    /\ pc = "await"
    /\ attempt = 3
    /\ now = 6
    /\ Cardinality(Logged("backoff")) = 2

\* C22. Attempts of one call are strictly sequential: attempt N+1 makes no
\* container lookup and no createRoot before attempt N is over (its race
\* has settled, its catch block has run and its backoff has elapsed), and
\* no two attempts are in progress at once.
C22_AttemptsSequential ==
    [][\A k \in Attempts :
          LoggedFor("getElementById", k)' # {} /\ LoggedFor("getElementById", k) = {}
              => /\ k = attempt + 1
                 /\ attempt' = k
                 /\ pc # "await" /\ pc' = "await"
                 /\ \A j \in 1..(k - 1) :
                        /\ race[j].st # "pending"
                        /\ initPromise[j].st # "pending"
                        /\ \E b \in LoggedFor("backoff", j) :
                              /\ \A i \in LoggedFor("getElementById", j) : i < b
                              /\ \A i \in LoggedFor("createRoot", j) : i < b
                              /\ \A i \in LoggedFor("render", j) : i < b
                 /\ \A j \in Attempts : j > k => LoggedFor("getElementById", j)' = {}]_vars

\* the second attempt has looked the container up, after the first one's backoff
C22_Witness ==
    /\ LoggedFor("getElementById", 2) # {}
    /\ LoggedFor("backoff", 1) # {}
    /\ LoggedFor("createRoot", 1) # {}
    /\ pc = "await"

\* C23. An instance is returned only after a successful mount: at the
\* return of an instance its root has rendered the widget into the container
\* without error, and the call made exactly one createRoot call and built
\* exactly one instance.
C23_InstanceOnlyAfterMount ==
    [][pc # "done" /\ pc' = "done" /\ result'.inst # 0
          => /\ roots'[result'.inst] = "committed"
             /\ content' = Widget(config)
             /\ Cardinality(Logged("createRoot")') = 1
             /\ Cardinality({k \in Attempts : instances'[k] # NoInstance}) = 1]_vars

\* C23, the part about the number of roots and instances alone
C23_OneRootPerSuccess ==
    [][pc # "done" /\ pc' = "done" /\ result'.inst # 0
          => /\ Cardinality(Logged("createRoot")') = 1
             /\ Cardinality({k \in Attempts : instances'[k] # NoInstance}) = 1]_vars

\* C24. An attempt that starts while the container is not in the document
\* fails with CONTAINER_NOT_FOUND carrying the attempt number, and makes no
\* createRoot and no render call.
C24_ContainerNotFound ==
    [][\A k \in Attempts :
          attempt' = k /\ attempt # k /\ ~present
              => /\ initPromise'[k] = [st |-> "rejected",
                                       err |-> [code |-> "CONTAINER_NOT_FOUND", attempt |-> k],
                                       inst |-> 0]
                 /\ race'[k] = initPromise'[k]
                 /\ log' = Append(log, Ev("getElementById", k))
                 /\ roots'[k] = "none"
                 /\ renderCalls'[k] = 0
                 /\ instances'[k] = NoInstance
                 /\ content' = content]_vars

\* the second attempt found no container either
C24_Witness ==
    /\ attempt = 2
    /\ race[2].st = "rejected"
    /\ race[2].err.code = "CONTAINER_NOT_FOUND"
    /\ race[2].err.attempt = 2
    /\ race[1].err.code = "CONTAINER_NOT_FOUND"
    /\ LoggedFor("createRoot", 2) = {}

\* C25. An exception thrown by createRoot or by the render call of attempt
\* k is caught and turned into INITIALIZATION_FAILED carrying k; the attempt
\* then fails like any other: the error becomes lastError, the loop backs
\* off while attempts remain, and after the last attempt the call ends
\* without an instance, the error going to onError and not to the caller.
C25_SetupThrew(k) ==
    /\ LoggedFor("createRoot", k) # {}
    /\ roots[k] \in {"none", "created"}
C25_InitializationFailed ==
    [][\A k \in Attempts :
          LET e == [code |-> "INITIALIZATION_FAILED", attempt |-> k]
          IN  /\ C25_SetupThrew(k)' /\ ~C25_SetupThrew(k)
                    => /\ initPromise'[k] = [st |-> "rejected", err |-> e, inst |-> 0]
                       /\ race'[k] = initPromise'[k]
                       /\ instances'[k] = NoInstance
                       /\ pc' = "await"
              /\ C25_SetupThrew(k) /\ pc = "await" /\ attempt = k /\ pc' # "await"
                    => /\ lastError' = e
                       /\ onSuccessArgs' = onSuccessArgs
                       /\ IF k < retries
                             THEN /\ pc' = "backoff"
                                  /\ result' = Unsettled
                                  /\ onErrorArgs' = onErrorArgs
                             ELSE /\ pc' = "done"
                                  /\ result'.inst = 0
                                  /\ onErrorArgs' = IF options.onError
                                                       THEN Append(onErrorArgs, e)
                                                       ELSE onErrorArgs
                                  /\ result' = RejectedCall => options.onError]_vars

\* the render call of attempt 1 threw, the loop went on, and the call ended
\* after attempt 2 failed the same way
C25_Witness ==
    /\ pc = "done"
    /\ roots[1] = "created"
    /\ roots[2] = "none"
    /\ LoggedFor("createRoot", 2) # {}
    /\ lastError = [code |-> "INITIALIZATION_FAILED", attempt |-> 2]
    /\ onErrorArgs = <<lastError>>
    /\ result = ResolvedNull

\* C26. Every getHealth call returns an empty errors list (one fixed
\* policy: no error is buffered, even after the boundary caught one),
\* lastCheck equal to the current time and uptime equal to the time elapsed
\* since the instance was built; uptime is never negative and never
\* decreases from one call to the next.
C26_HealthTimes ==
    [][\A k \in Attempts :
          GetHealth(k)
              => /\ health'.errors = 0
                 /\ health'.lastCheck = now
                 /\ health'.uptime = now - instances[k].startTime
                 /\ health'.uptime >= 0
                 /\ health.inst = k => health'.uptime >= health.uptime]_vars

\* getHealth answered some time after the instance of the second attempt
\* was built, and after its boundary caught a render error
C26_Witness ==
    \E k \in Attempts :
        /\ Held(k)
        /\ health = getHealth(k)
        /\ instances[k].startTime > 0
        /\ health.uptime > 0
        /\ caughtAt[k] > 0

\* C27. The boundary renders its children while it has caught no error and,
\* once it has, renders the fallback in their place: the component given as
\* the fallback prop, else the default one with its reload button. When it
\* catches an error it calls its onError prop, if it has one, before
\* Sentry and window.reportWidgetError.
C27_BoundaryRendering ==
    [][\A k \in Attempts :
          LET t == tree[k]
              shown == IF t.fallback = "custom"
                          THEN [kind |-> "customFallback", v |-> "", cfg |-> EmptyConfig]
                          ELSE [kind |-> "errorFallback", v |-> "Reload Page",
                                cfg |-> EmptyConfig]
          IN  /\ Commit(k)
                    => content' = IF hasError[k] THEN shown
                                  ELSE [kind |-> "widget", v |-> "", cfg |-> t.config]
              /\ CommitError(k)
                    => /\ ~hasError[k]
                       /\ roots'[k] = "errored" => hasError'[k] /\ content' = shown
                       /\ IF t.onError = "none"
                             THEN \A i \in 1..Len(intercepted') : intercepted'[i] # "onError"
                             ELSE /\ intercepted' # <<>>
                                  /\ intercepted'[1] = "onError"
                                  /\ \A i \in 2..Len(intercepted') :
                                         intercepted'[i] \in {"Sentry", "reportWidgetError"}]_vars

\* a boundary with a fallback prop and an onError prop caught an error on a
\* page with both reporting hooks, and shows the caller's fallback after a
\* further render
C27_Witness ==
    /\ tree[1].fallback = "custom"
    /\ hasError[1]
    /\ roots[1] = "errored"
    /\ renderCalls[1] = 2
    /\ content = CustomFallback
    /\ intercepted = <<"onError", "Sentry", "reportWidgetError">>

\* C28. initMyWidget always terminates: for every config, every retries >= 0
\* and every behaviour of the container and of React, a call that was made
\* settles, after at most `retries` attempts and at most retries - 1 backoff
\* waits, provided timers that are due fire.
C28_Bounded ==
    /\ Cardinality(Logged("getElementById")) <= retries
    /\ Cardinality(Logged("createRoot")) <= retries
    /\ attempt <= retries
    /\ Cardinality(Logged("backoff")) <= (IF retries = 0 THEN 0 ELSE retries - 1)
    /\ (pc = "done") = (result # Unsettled)
C28_Terminates ==
    /\ []C28_Bounded
    /\ (pc # "idle") ~> (pc = "done")

\* a call with the default of three attempts settled after using all of
\* them and both backoff waits
C28_Witness ==
    /\ pc = "done"
    /\ result # Unsettled
    /\ retries = 3
    /\ Cardinality(Logged("getElementById")) = 3
    /\ Cardinality(Logged("backoff")) = 2

\* C29. For every initMyWidget call with retries >= 1 and both observers
\* supplied, exactly one observer is invoked, exactly once: onSuccess when an
\* instance is returned, onError when null is returned; never both in the
\* same call and never more than once each.
C29_ExactlyOneObserverOnce ==
    (pc = "done" /\ retries >= 1 /\ options.onError /\ options.onSuccess)
        => /\ Len(onSuccessArgs) + Len(onErrorArgs) = 1
           /\ (Len(onSuccessArgs) = 1) = (result.inst # 0)
           /\ (Len(onErrorArgs) = 1) = (result.inst = 0)

\* C29, for the calls whose observers returned normally
C29_WhenObserversReturn == ObserversReturned => C29_ExactlyOneObserverOnce

\* C30. Whenever initMyWidget resolves to null, no root created by that call
\* remains mounted on the container: every root a failed attempt created
\* has been unmounted by the time the call returns.
C30_NoRootLeftOnNull ==
    (pc = "done" /\ result = ResolvedNull)
        => \A k \in Attempts : roots[k] \notin Mounted

\* C30, for the calls whose observers returned normally
C30_WhenObserversReturn == ObserversReturned => C30_NoRootLeftOnNull

\* C30, second half: a retry never calls createRoot on a container that
\* still holds a root from an earlier attempt of the same call.
C30_RetryOnReleasedContainer ==
    [][\A k \in Attempts :
          (roots[k] = "none" /\ roots'[k] # "none")
              => \A j \in Attempts : j # k => roots[j] \notin Mounted]_vars

\* what a call with retries = 0 and a valid config does apart from the
\* fallback: it is over at once with null, having looked up no container
\* for mounting, called neither createRoot nor render, set no timer and
\* invoked no observer
C31_NoAttempt ==
    /\ pc' = "done"
    /\ result' = ResolvedNull
    /\ attempt' = 0
    /\ lastError' = NoError
    /\ timers' = timers
    /\ roots' = roots
    /\ instances' = instances
    /\ onErrorArgs' = <<>>
    /\ onSuccessArgs' = <<>>
    /\ \A i \in 1..Len(log') : log'[i].ev = "fallback"

\* C31. With retries = 0 initMyWidget makes no attempt and resolves to
\* null without invoking onError, and a supplied fallback is still
\* rendered into the container if the container exists.
C31_ZeroRetries ==
    [][(pc = "idle" /\ pc' # "idle" /\ retries = 0 /\ validateConfig(config) = "ok")
        => /\ C31_NoAttempt
           /\ (options.fallback.t # "undefined" /\ present)
                 => content' = IF options.fallback.t = "string"
                                  THEN Html(options.fallback.v)
                                  ELSE CloneOf(options.fallback.v)
      ]_vars

\* C31 as amended: the fallback is rendered when it is truthy (an element
\* or a non-empty markup string) and the container exists; otherwise the
\* container keeps its content.
C31_ZeroRetriesTruthyFallback ==
    [][(pc = "idle" /\ pc' # "idle" /\ retries = 0 /\ validateConfig(config) = "ok")
        => /\ C31_NoAttempt
           /\ content' = IF Truthy(options.fallback) /\ present
                            THEN IF options.fallback.t = "string"
                                    THEN Html(options.fallback.v)
                                    ELSE CloneOf(options.fallback.v)
                            ELSE content
      ]_vars

\* a call with retries = 0 and an onError observer is over, with the
\* fallback markup in the container and the observer not invoked
C31_Witness ==
    /\ pc = "done"
    /\ retries = 0
    /\ options.onError
    /\ validateConfig(config) = "ok"
    /\ result = ResolvedNull
    /\ content = Html("<p>unavailable</p>")
    /\ onErrorArgs = <<>>
    /\ log = <<Ev("fallback", 0)>>

\* C32. The timer of an attempt's timeoutPromise is never cancelled: it
\* leaves the pending timers only by firing, at its own time.  It fires after
\* its attempt has settled, and then has no observable effect: the race of
\* its attempt keeps its outcome, no observer is invoked, no attempt is
\* started, the result, the instances, the roots and the container are as
\* before, and its rejection is handled by the race that subscribed to it.
C32_LateTimeoutInert ==
    [][\A t \in timers :
          (t.kind = "timeout" /\ t \notin timers')
              => /\ now' = t.at
                 /\ race[t.attempt].st # "pending"
                 /\ timeoutPromise'[t.attempt].st = "rejected"
                 /\ t.attempt <= attempt
                 /\ race' = race
                 /\ UNCHANGED <<present, content, pc, attempt, lastError, result,
                                initPromise, instances, roots, log, onErrorArgs,
                                onSuccessArgs, mountVars, lifeVars>>
                 /\ \A u \in timers' : u \in timers
      ]_vars

\* the call has returned an instance, and afterwards the timer of the
\* attempt that made it has fired and rejected timeoutPromise
C32_Witness ==
    /\ pc = "done"
    /\ \E k \in Attempts :
          /\ result = ResolvedInstance(k)
          /\ race[k] = Fulfilled(k)
          /\ timeoutPromise[k].st = "rejected"
          /\ \A t \in timers : ~(t.kind = "timeout" /\ t.attempt = k)

\* C33. The boundary's state is a one-way latch: hasError is false on
\* construction, becomes true only in the step in which the boundary
\* intercepts a descendant's error, is never reset to false by a later event
\* (a re-render with new props included), and hasError = true implies that
\* the error caught is recorded.
C33_Latched ==
    \A k \in Attempts :
       /\ hasError[k] => hasError'[k]
       /\ (roots[k] = "none" /\ roots'[k] # "none") => ~hasError'[k]
       /\ (~hasError[k] /\ hasError'[k])
             => /\ roots[k] = "scheduled"
                /\ roots'[k] = "errored"
                /\ caughtAt'[k] = renderCalls[k]
                /\ content' = BoundaryRender(TRUE, tree[k])
       /\ hasError'[k] => caughtAt'[k] \in 1..renderCalls'[k]
C33_OneWayLatch ==
    /\ \A k \in Attempts : ~hasError[k] \/ caughtAt[k] >= 1
    /\ [][C33_Latched]_vars

\* a boundary that caught an error of the first render was re-rendered by
\* update with a new config, React committed that render, and the boundary
\* still has hasError and displays its fallback
C33_Witness ==
    \E k \in Attempts :
       /\ hasError[k]
       /\ caughtAt[k] = 1
       /\ renderCalls[k] >= 2
       /\ tree[k].config # config
       /\ roots[k] = "errored"
       /\ content = BoundaryFallback

====
